---------------------------- MODULE Spec2Model ----------------------------
(***************************************************************************)
(* Model of kognitos/bdk-examples: the YAML document concept and book      *)
(* (src/yaml_book/book.py), the SMS filter visitor                         *)
(* (src/twilio_book/sms_message_filter.py), the Twilio book                *)
(* (src/twilio_book/twilio_book.py) and the OpenWeather book               *)
(* (src/openweather_book/book.py).  Seven specifications:                  *)
(*   Spec        has / get / set / delete on document nodes                *)
(*   SpecMerge   YAMLBook.merge                                            *)
(*   SpecCodec   to_bytes / from_bytes / to_stream / from_stream           *)
(*   SpecFilter  one traversal of a filter expression by SMSMessageFilter  *)
(*   SpecTwilio  TwilioBook.connect and read_sms_messages                  *)
(*   SpecWeather OpenWeatherBook: timeout, connect, current_temperature    *)
(*   SpecConnect connect of the two books                                  *)
(*                                                                         *)
(* Python values are tagged tuples:                                        *)
(*   <<"int", n>>, <<"str", s>>, <<"date", t>>, <<"none">>   scalars       *)
(*   <<"dict", d>>    a reference to the dict object heap[d]               *)
(*   <<"list", <<v1, ..., vk>>>>   a list (never mutated in place here)    *)
(*   <<"node", n>>    a reference to the YAMLConcept object nodes[n]       *)
(* A dict object is the sequence of its <<key, value>> items in insertion  *)
(* order.  A YAMLConcept object is its one field, value: 0 for None, else  *)
(* the id of the dict it wraps.                                            *)
(***************************************************************************)
EXTENDS Integers, Sequences, FiniteSets, TLC

VARIABLES heap, nodes, visitor, twilio, weather, environ, provider, ret, steps

vars == <<heap, nodes, visitor, twilio, weather, environ, provider, ret, steps>>

\* The state of the YAML book and the state of the Twilio book.
yaml_vars == <<heap, nodes>>
sms_vars == <<visitor>>

\* The two books that call a provider, the process environment and the provider.
book_vars == <<twilio, weather, environ, provider>>

\* ------------------------------------------------------------- bounds
MaxSteps == 2
MaxNodes == 4
MaxCalls == 3
MaxMessages == 3

\* ------------------------------------------------------------- helpers
None == <<"none">>
Num(i) == <<"int", i>>
Str(t) == <<"str", t>>
Bool(b) == <<"bool", b>>
Date(t) == <<"date", t>>
List(items) == <<"list", items>>
\* a mapping as plain data (not an object of the heap): its items in order
Map(items) == <<"map", items>>

\* str.lower() on the key alphabet
lower(s) ==
    CASE s = "Movies" -> "movies"
      [] s = "MOVIES" -> "movies"
      [] s = "movies" -> "movies"
      [] s = "Year"   -> "year"
      [] s = "year"   -> "year"
      [] OTHER        -> s

\* self.value.keys(): the keys in insertion order
keys(m) == [i \in 1..Len(m) |-> m[i][1]]

\* key in self.value
contains(m, key) == \E i \in 1..Len(m) : m[i][1] = key

\* self.value[key]
item(m, key) == m[CHOOSE i \in 1..Len(m) : m[i][1] = key][2]

\* self.value[key] = v  (an existing key keeps its place, a new key goes last)
setitem(m, key, v) ==
    IF contains(m, key)
    THEN [i \in 1..Len(m) |-> IF m[i][1] = key THEN <<key, v>> ELSE m[i]]
    ELSE Append(m, <<key, v>>)

\* self.value.pop(key)
pop(m, key) == SelectSeq(m, LAMBDA kv : kv[1] # key)

\* key.lower() in [value_key.lower() for value_key in self.value.keys()]
contains_lower(m, key) == \E i \in 1..Len(m) : lower(m[i][1]) = lower(key)

new_key_last(m, key) ==
    LET hits == SelectSeq(keys(m), LAMBDA value_key : lower(key) = lower(value_key))
    IN  hits[Len(hits)]

\* [value_key for value_key in self.value.keys() if key.lower() == value_key.lower()][0]
new_key(m, key) ==
    SelectSeq(keys(m), LAMBDA value_key : lower(key) = lower(value_key))[1]


\* ------------------------------------------------------ YAMLConcept
RECURSIVE wrap_shallow(_, _)
RECURSIVE wrap_shallow_items(_, _)
\* wrap that wraps the mappings of the top-level list only
wrap_shallow(it, ns) ==
    IF it[1] = "dict"
    THEN [val |-> <<"node", Len(ns) + 1>>, nodes |-> Append(ns, it[2])]
    ELSE IF it[1] = "list"
    THEN LET r == wrap_shallow_items(it[2], ns)
         IN  [val |-> <<"list", r.val>>, nodes |-> r.nodes]
    ELSE [val |-> it, nodes |-> ns]

wrap_shallow_items(items, ns) ==
    IF items = <<>>
    THEN [val |-> <<>>, nodes |-> ns]
    ELSE LET hd == IF Head(items)[1] = "dict"
                   THEN wrap_shallow(Head(items), ns)
                   ELSE [val |-> Head(items), nodes |-> ns]
             tl == wrap_shallow_items(Tail(items), hd.nodes)
         IN  [val |-> <<hd.val>> \o tl.val, nodes |-> tl.nodes]

RECURSIVE wrap(_, _)
RECURSIVE wrap_items(_, _)
\* wrap(item): a dict becomes a new YAMLConcept on the same dict object, a
\* list a new list of wrapped items, anything else is returned as it is.
\* ns are the YAMLConcept objects so far; the result carries the new ones.
wrap(it, ns) ==
    IF it[1] = "dict"
    THEN [val |-> <<"node", Len(ns) + 1>>, nodes |-> Append(ns, it[2])]
    ELSE IF it[1] = "list"
    THEN LET r == wrap_items(it[2], ns)
         IN  [val |-> <<"list", r.val>>, nodes |-> r.nodes]
    ELSE [val |-> it, nodes |-> ns]

\* [wrap(item) for item in item]
wrap_items(items, ns) ==
    IF items = <<>>
    THEN [val |-> <<>>, nodes |-> ns]
    ELSE LET hd == wrap(Head(items), ns)
             tl == wrap_items(Tail(items), hd.nodes)
         IN  [val |-> <<hd.val>> \o tl.val, nodes |-> tl.nodes]

RECURSIVE unwrap(_, _)
\* unwrap(item): a YAMLConcept becomes its value, a list a new list of
\* unwrapped items, anything else is returned as it is.
unwrap(it, ns) ==
    IF it[1] = "node"
    THEN IF ns[it[2]] = 0 THEN None ELSE <<"dict", ns[it[2]]>>
    ELSE IF it[1] = "list"
    THEN <<"list", [i \in 1..Len(it[2]) |-> unwrap(it[2][i], ns)]>>
    ELSE it

\* What a method call leaves behind: the heap, the YAMLConcept objects, and
\* how it ended ("ok" with the returned value, or "KeyError").
Outcome(h, ns, outcome, result) ==
    [heap |-> h, nodes |-> ns, outcome |-> outcome, result |-> result]

\* YAMLConcept.has
has(h, ns, n, key, case_sensitive) ==
    IF ns[n] # 0
    THEN IF case_sensitive /\ contains(h[ns[n]], key)
         THEN TRUE
         ELSE IF ~case_sensitive /\ contains_lower(h[ns[n]], key)
         THEN TRUE
         ELSE FALSE
    ELSE FALSE

\* YAMLConcept.get
get(h, ns, n, key, case_sensitive) ==
    IF ns[n] # 0
    THEN LET m == h[ns[n]] IN
         IF case_sensitive
         THEN IF contains(m, key)
              THEN LET w == wrap(item(m, key), ns)
                   IN  Outcome(h, w.nodes, "ok", w.val)
              ELSE Outcome(h, ns, "KeyError", <<"str", key>>)
         ELSE IF contains_lower(m, key)
              THEN LET w == wrap(item(m, new_key(m, key)), ns)
                   IN  Outcome(h, w.nodes, "ok", w.val)
              ELSE Outcome(h, ns, "KeyError", <<"str", key>>)
    ELSE Outcome(h, ns, "KeyError", <<"str", key>>)

\* case-insensitive set that falls back to creating the key
set_upsert(h, ns, n, key, value, case_sensitive) ==
    IF ns[n] # 0
    THEN LET m == h[ns[n]] IN
         IF case_sensitive \/ ~contains_lower(m, key)
         THEN Outcome([h EXCEPT ![ns[n]] = setitem(m, key, unwrap(value, ns))],
                      ns, "ok", <<"node", n>>)
         ELSE Outcome([h EXCEPT ![ns[n]] =
                           setitem(m, new_key(m, key), unwrap(value, ns))],
                      ns, "ok", <<"node", n>>)
    ELSE Outcome(h, ns, "KeyError", <<"str", key>>)

\* YAMLConcept.set
set(h, ns, n, key, value, case_sensitive) ==
    IF ns[n] # 0
    THEN LET m == h[ns[n]] IN
         IF case_sensitive
         THEN Outcome([h EXCEPT ![ns[n]] = setitem(m, key, unwrap(value, ns))],
                      ns, "ok", <<"node", n>>)
         ELSE IF contains_lower(m, key)
              THEN Outcome([h EXCEPT ![ns[n]] =
                                setitem(m, new_key(m, key), unwrap(value, ns))],
                           ns, "ok", <<"node", n>>)
              ELSE Outcome(h, ns, "KeyError", <<"str", key>>)
    ELSE Outcome(h, ns, "KeyError", <<"str", key>>)

\* delete that removes the last item before it reports a missing key
delete_eager(h, ns, n, key, case_sensitive) ==
    IF ns[n] # 0
    THEN LET m == h[ns[n]] IN
         IF case_sensitive
         THEN IF contains(m, key)
              THEN Outcome([h EXCEPT ![ns[n]] = pop(m, key)], ns, "ok", None)
              ELSE Outcome([h EXCEPT ![ns[n]] = SubSeq(m, 1, Len(m) - 1)],
                           ns, "KeyError", <<"str", key>>)
         ELSE IF contains_lower(m, key)
              THEN Outcome([h EXCEPT ![ns[n]] = pop(m, new_key(m, key))],
                           ns, "ok", None)
              ELSE Outcome([h EXCEPT ![ns[n]] = SubSeq(m, 1, Len(m) - 1)],
                           ns, "KeyError", <<"str", key>>)
    ELSE Outcome(h, ns, "KeyError", <<"str", key>>)

\* YAMLConcept.delete
delete(h, ns, n, key, case_sensitive) ==
    IF ns[n] # 0
    THEN LET m == h[ns[n]] IN
         IF case_sensitive
         THEN IF contains(m, key)
              THEN Outcome([h EXCEPT ![ns[n]] = pop(m, key)], ns, "ok", None)
              ELSE Outcome(h, ns, "KeyError", <<"str", key>>)
         ELSE IF contains_lower(m, key)
              THEN Outcome([h EXCEPT ![ns[n]] = pop(m, new_key(m, key))],
                           ns, "ok", None)
              ELSE Outcome(h, ns, "KeyError", <<"str", key>>)
    ELSE Outcome(h, ns, "KeyError", <<"str", key>>)


\* ------------------------------------------------------ SMSMessageFilter
\* values.unset of twilio.base
unset == <<"unset">>

SENDER_NUMBER == "sender number"
RECIPIENT_NUMBER == "recipient number"
DATE_SENT == "date sent"

\* A filter expression: FilterBinaryExpression, FilterUnaryExpression,
\* ValueExpression and NounPhrasesExpression.
Binary(operator, left, right) == <<"binary", operator, left, right>>
Unary(operator, expression) == <<"unary", operator, expression>>
Value(value) == <<"value", value>>
NounPhrases(noun_phrases) == <<"noun_phrases", noun_phrases>>

\* str(datetime) of the two instants the filters use
date_text(t) ==
    CASE t = 1 -> "2022-03-01 15:00:00+00:00"
      [] t = 2 -> "2022-03-03 15:00:00+00:00"

\* str(int) of a one-digit int
int_text(i) ==
    CASE i = 0 -> "0" [] i = 1 -> "1" [] i = 2 -> "2" [] i = 3 -> "3"
      [] i = 4 -> "4" [] i = 5 -> "5" [] i = 6 -> "6" [] i = 7 -> "7"
      [] i = 8 -> "8" [] i = 9 -> "9"

\* str(value)
py_str(v) ==
    CASE v[1] = "str"  -> v
      [] v[1] = "int"  -> Str(int_text(v[2]))
      [] v[1] = "date" -> Str(date_text(v[2]))
      [] v[1] = "none" -> Str("None")

\* SMSMessageFilter(): the class attributes a new visitor starts with; error
\* is the exception that ended its traversal, if one did.
SMSMessageFilter ==
    [current_noun_phrase |-> None,
     current_value |-> None,
     recipient_number |-> unset,
     sender_number |-> unset,
     date_sent |-> unset,
     date_sent_before |-> unset,
     date_sent_after |-> unset,
     error |-> None]

raise(f, exception, about) == [f EXCEPT !.error = <<exception, about>>]

\* the operator part of visit_binary_expression with sender and recipient swapped
apply_operator_swapped(operator, f) ==
    IF operator = "EQUALS"
    THEN IF f.current_noun_phrase = Str(SENDER_NUMBER)
         THEN [f EXCEPT !.recipient_number = py_str(f.current_value)]
         ELSE IF f.current_noun_phrase = Str(RECIPIENT_NUMBER)
         THEN [f EXCEPT !.sender_number = py_str(f.current_value)]
         ELSE IF f.current_noun_phrase = Str(DATE_SENT)
         THEN IF f.current_value[1] # "date"
              THEN raise(f, "TypeMismatchError", "date_sent")
              ELSE [f EXCEPT !.date_sent = f.current_value]
         ELSE f
    ELSE IF operator = "GREATER_THAN"
    THEN IF f.current_noun_phrase = Str(DATE_SENT)
         THEN IF f.current_value[1] # "date"
              THEN raise(f, "TypeMismatchError", "date_sent")
              ELSE [f EXCEPT !.date_sent_after = f.current_value]
         ELSE f
    ELSE IF operator = "LESS_THAN"
    THEN IF f.current_noun_phrase = Str(DATE_SENT)
         THEN IF f.current_value[1] # "date"
              THEN raise(f, "TypeMismatchError", "date_sent")
              ELSE [f EXCEPT !.date_sent_before = f.current_value]
         ELSE f
    ELSE IF operator = "AND"
    THEN f
    ELSE raise(f, "ValueError", operator)

\* the operator part of visit_binary_expression without the datetime checks
apply_operator_unchecked(operator, f) ==
    IF operator = "EQUALS"
    THEN IF f.current_noun_phrase = Str(SENDER_NUMBER)
         THEN [f EXCEPT !.sender_number = py_str(f.current_value)]
         ELSE IF f.current_noun_phrase = Str(RECIPIENT_NUMBER)
         THEN [f EXCEPT !.recipient_number = py_str(f.current_value)]
         ELSE IF f.current_noun_phrase = Str(DATE_SENT)
         THEN [f EXCEPT !.date_sent = f.current_value]
         ELSE f
    ELSE IF operator = "GREATER_THAN"
    THEN IF f.current_noun_phrase = Str(DATE_SENT)
         THEN [f EXCEPT !.date_sent_after = f.current_value]
         ELSE f
    ELSE IF operator = "LESS_THAN"
    THEN IF f.current_noun_phrase = Str(DATE_SENT)
         THEN [f EXCEPT !.date_sent_before = f.current_value]
         ELSE f
    ELSE IF operator = "AND"
    THEN f
    ELSE raise(f, "ValueError", operator)

\* visit_binary_expression after both sides were visited: the operator
apply_operator(operator, f) ==
    IF operator = "EQUALS"
    THEN IF f.current_noun_phrase = Str(SENDER_NUMBER)
         THEN [f EXCEPT !.sender_number = py_str(f.current_value)]
         ELSE IF f.current_noun_phrase = Str(RECIPIENT_NUMBER)
         THEN [f EXCEPT !.recipient_number = py_str(f.current_value)]
         ELSE IF f.current_noun_phrase = Str(DATE_SENT)
         THEN IF f.current_value[1] # "date"
              THEN raise(f, "TypeMismatchError", "date_sent")
              ELSE [f EXCEPT !.date_sent = f.current_value]
         ELSE f
    ELSE IF operator = "GREATER_THAN"
    THEN IF f.current_noun_phrase = Str(DATE_SENT)
         THEN IF f.current_value[1] # "date"
              THEN raise(f, "TypeMismatchError", "date_sent")
              ELSE [f EXCEPT !.date_sent_after = f.current_value]
         ELSE f
    ELSE IF operator = "LESS_THAN"
    THEN IF f.current_noun_phrase = Str(DATE_SENT)
         THEN IF f.current_value[1] # "date"
              THEN raise(f, "TypeMismatchError", "date_sent")
              ELSE [f EXCEPT !.date_sent_before = f.current_value]
         ELSE f
    ELSE IF operator = "AND"
    THEN f
    ELSE raise(f, "ValueError", operator)

\* SMSMessageFilter.visit_value
visit_value(expression, f) == [f EXCEPT !.current_value = expression[2]]

\* SMSMessageFilter.visit_noun_phrases
visit_noun_phrases(expression, f) ==
    IF Len(expression[2]) # 1
    THEN raise(f, "ValueError", "noun phrase")
    ELSE IF expression[2][1] \notin {SENDER_NUMBER, RECIPIENT_NUMBER, DATE_SENT}
    THEN raise(f, "ValueError", "noun phrase")
    ELSE [f EXCEPT !.current_noun_phrase = Str(expression[2][1])]

\* SMSMessageFilter.visit_unary_expression
visit_unary_expression(expression, f) == f

RECURSIVE accept(_, _)
\* SMSMessageFilter.visit_binary_expression; an exception raised on one side
\* ends the traversal there
visit_binary_expression(expression, f) ==
    LET left == accept(expression[3], f) IN
    IF left.error # None
    THEN left
    ELSE LET right == accept(expression[4], left) IN
         IF right.error # None
         THEN right
         ELSE apply_operator(expression[2], right)

\* expression.accept(visitor): the visit method of the expression's class
accept(expression, f) ==
    CASE expression[1] = "binary" -> visit_binary_expression(expression, f)
      [] expression[1] = "unary" -> visit_unary_expression(expression, f)
      [] expression[1] = "value" -> visit_value(expression, f)
      [] expression[1] = "noun_phrases" -> visit_noun_phrases(expression, f)

\* ------------------------------------------------------ the provider
\* the keyword arguments of client.messages.list
list_query(f) ==
    [to |-> f.recipient_number,
     from_ |-> f.sender_number,
     date_sent |-> f.date_sent,
     date_sent_before |-> f.date_sent_before,
     date_sent_after |-> f.date_sent_after]

\* What a book's provider has seen: the number of calls it received, how
\* many of them were list calls carrying a filter, and the last call.
NoProvider == [calls |-> 0, filtered |-> 0, last |-> None]

is_filtered_list(request) ==
    /\ request[1] = "messages.list"
    /\ request[2] # list_query(SMSMessageFilter)

received(p, request) ==
    [calls |-> p.calls + 1,
     filtered |-> IF is_filtered_list(request) THEN p.filtered + 1 ELSE p.filtered,
     last |-> request]

\* ------------------------------------------------------ TwilioBook
\* TwilioBook(): the fields after construction
TwilioBook == [_account_sid |-> None, _auth_token |-> None]

\* Client(username, password) of twilio.rest raises when either is missing
\* (no TWILIO_ACCOUNT_SID / TWILIO_AUTH_TOKEN in the environment).
has_credentials(username, password) ==
    /\ username \notin {None, Str("")}
    /\ password \notin {None, Str("")}

\* TwilioBook.connect that stores the credentials before verifying them
twilio_connect_eager(book, p, account_sid, auth_token, response) ==
    LET stored == [book EXCEPT !._auth_token = auth_token,
                               !._account_sid = account_sid]
    IN  IF ~has_credentials(account_sid, auth_token)
        THEN [book |-> stored, provider |-> p, outcome |-> "ValueError"]
        ELSE LET p2 == received(p, <<"accounts.fetch", account_sid, auth_token>>)
             IN  IF response # "ok"
                 THEN [book |-> stored, provider |-> p2, outcome |-> "ValueError"]
                 ELSE [book |-> stored, provider |-> p2, outcome |-> "ok"]

\* TwilioBook.connect; response is what the provider answers to the fetch of
\* the account, "ok" or an exception
twilio_connect(book, p, account_sid, auth_token, response) ==
    IF ~has_credentials(account_sid, auth_token)
    THEN [book |-> book, provider |-> p, outcome |-> "ValueError"]
    ELSE LET p2 == received(p, <<"accounts.fetch", account_sid, auth_token>>)
         IN  IF response # "ok"
             THEN [book |-> book, provider |-> p2, outcome |-> "ValueError"]
             ELSE [book |-> [book EXCEPT !._auth_token = auth_token,
                                         !._account_sid = account_sid],
                   provider |-> p2,
                   outcome |-> "ok"]

\* A MessageInstance of the provider, and the SMSMessage made of it
MessageInstance(sid) ==
    [sid |-> sid, from_ |-> Str("+1800"), to |-> Str("+1900"), date_sent |-> Date(1)]

from_message_instance(message_instance) ==
    [sid |-> message_instance.sid,
     sender_number |-> message_instance.from_,
     recipient_number |-> message_instance.to,
     date_sent |-> message_instance.date_sent]

\* messages[offset:] and messages[:limit] of a Python list
slice_from(messages, offset) ==
    LET n == Len(messages)
        start == IF offset < 0
                 THEN (IF n + offset < 0 THEN 0 ELSE n + offset)
                 ELSE (IF offset > n THEN n ELSE offset)
    IN  SubSeq(messages, start + 1, n)

slice_to(messages, limit) ==
    LET n == Len(messages)
        stop == IF limit < 0
                THEN (IF n + limit < 0 THEN 0 ELSE n + limit)
                ELSE (IF limit > n THEN n ELSE limit)
    IN  SubSeq(messages, 1, stop)

\* read_sms_messages from the list call on: response is what the provider
\* answers, a list of MessageInstance or an exception
list_and_slice(f, p, offset, limit, response) ==
    LET p2 == received(p, <<"messages.list", list_query(f)>>)
    IN  IF response[1] # "list"
        THEN [visitor |-> f, provider |-> p2,
              outcome |-> "TwilioRestException", result |-> None]
        ELSE LET fetched == response[2]
                 skipped == IF offset # None THEN slice_from(fetched, offset[2]) ELSE fetched
                 cut == IF limit # None THEN slice_to(skipped, limit[2]) ELSE skipped
             IN  [visitor |-> f, provider |-> p2, outcome |-> "ok",
                  result |-> List([i \in 1..Len(cut) |-> from_message_instance(cut[i])])]

\* read_sms_messages whose visitor is the one the last read left
read_sms_messages_kept_visitor(book, f0, p, offset, limit, filter_expression, response) ==
    IF ~has_credentials(book._account_sid, book._auth_token)
    THEN [visitor |-> f0, provider |-> p, outcome |-> "TwilioException", result |-> None]
    ELSE LET kept == [f0 EXCEPT !.error = None]
             f == IF filter_expression # None
                  THEN accept(filter_expression, kept)
                  ELSE kept
         IN  IF f.error # None
             THEN [visitor |-> f, provider |-> p, outcome |-> f.error[1], result |-> None]
             ELSE list_and_slice(f, p, offset, limit, response)

\* read_sms_messages that lists before it visits the filter expression
read_sms_messages_list_first(book, f0, p, offset, limit, filter_expression, response) ==
    IF ~has_credentials(book._account_sid, book._auth_token)
    THEN [visitor |-> f0, provider |-> p, outcome |-> "TwilioException", result |-> None]
    ELSE LET f == IF filter_expression # None
                  THEN accept(filter_expression, SMSMessageFilter)
                  ELSE SMSMessageFilter
             listed == list_and_slice([f EXCEPT !.error = None], p, offset, limit, response)
         IN  IF f.error # None
             THEN [visitor |-> f, provider |-> listed.provider,
                   outcome |-> f.error[1], result |-> None]
             ELSE listed

\* read_sms_messages that applies the limit before the offset
read_sms_messages_limit_first(book, f0, p, offset, limit, filter_expression, response) ==
    IF ~has_credentials(book._account_sid, book._auth_token)
    THEN [visitor |-> f0, provider |-> p, outcome |-> "TwilioException", result |-> None]
    ELSE LET f == IF filter_expression # None
                  THEN accept(filter_expression, SMSMessageFilter)
                  ELSE SMSMessageFilter
             p2 == received(p, <<"messages.list", list_query(f)>>)
         IN  IF f.error # None
             THEN [visitor |-> f, provider |-> p, outcome |-> f.error[1], result |-> None]
             ELSE IF response[1] # "list"
             THEN [visitor |-> f, provider |-> p2,
                   outcome |-> "TwilioRestException", result |-> None]
             ELSE LET fetched == response[2]
                      cut == IF limit # None THEN slice_to(fetched, limit[2]) ELSE fetched
                      skipped == IF offset # None THEN slice_from(cut, offset[2]) ELSE cut
                  IN  [visitor |-> f, provider |-> p2, outcome |-> "ok",
                       result |-> List([i \in 1..Len(skipped) |->
                                           from_message_instance(skipped[i])])]

\* TwilioBook.read_sms_messages; f0 is the visitor of the last read, which a
\* read that gets as far as SMSMessageFilter() replaces
read_sms_messages(book, f0, p, offset, limit, filter_expression, response) ==
    IF ~has_credentials(book._account_sid, book._auth_token)
    THEN [visitor |-> f0, provider |-> p, outcome |-> "TwilioException", result |-> None]
    ELSE LET f == IF filter_expression # None
                  THEN accept(filter_expression, SMSMessageFilter)
                  ELSE SMSMessageFilter
         IN  IF f.error # None
             THEN [visitor |-> f, provider |-> p, outcome |-> f.error[1], result |-> None]
             ELSE list_and_slice(f, p, offset, limit, response)

\* ------------------------------------------------------ OpenWeatherBook
DEFAULT_TIMEOUT == 30

\* OpenWeatherBook(): the fields after construction
OpenWeatherBook == [_api_key |-> None, _timeout |-> Num(DEFAULT_TIMEOUT)]

\* os.environ without API_KEY
NoEnviron == [API_KEY |-> None]

\* A float that is not a number, and timeout <= 0 of Python: a comparison
\* with NaN is false.
NaN == <<"float", "nan">>

le_zero(timeout) == timeout # NaN /\ timeout[2] <= 0

\* OpenWeatherBook.timeout, the setter
set_timeout(book, timeout) ==
    IF le_zero(timeout)
    THEN [book |-> book, outcome |-> "ValueError"]
    ELSE [book |-> [book EXCEPT !._timeout = timeout], outcome |-> "ok"]

\* requests.get(url, timeout=...): the request the provider receives.  The
\* URL is its query parameters; units is "" when the URL has none.
requests_get(appid, q, units, timeout) ==
    <<"GET", [appid |-> appid, q |-> q, units |-> units], timeout>>

\* What the provider answers: an exception raised by requests.get, or a
\* response with a status code and a body, <<"json", message, temp>> (each
\* None when the document lacks it) or <<"text">> when it is not JSON.
Raised(exception) == <<"raise", exception>>
Response(status_code, body) == <<"response", status_code, body>>
Json(message, temp) == <<"json", message, temp>>

\* "Invalid API key" in response_data.get("message", ""), for the messages
\* the provider sends
INVALID_API_KEY == "Invalid API key. Please see https://openweathermap.org/faq#error401 for more info."

mentions_invalid_api_key(body) ==
    /\ body[2] # None
    /\ body[2][2] \in {"Invalid API key", INVALID_API_KEY}

\* OpenWeatherBook.connect
weather_connect(book, env, p, api_key, response) ==
    LET key == IF env.API_KEY # None THEN env.API_KEY ELSE api_key
        p2 == received(p, requests_get(py_str(key)[2], "London", "", book._timeout))
    IN  IF response[1] = "raise"
        THEN [book |-> book, provider |-> p2, outcome |-> response[2]]
        ELSE IF response[2] = 401 /\ response[3][1] # "json"
        THEN [book |-> book, provider |-> p2, outcome |-> "JSONDecodeError"]
        ELSE IF response[2] = 401 /\ mentions_invalid_api_key(response[3])
        THEN [book |-> book, provider |-> p2, outcome |-> "ValueError"]
        ELSE [book |-> [book EXCEPT !._api_key = key], provider |-> p2, outcome |-> "ok"]

\* urllib.parse.quote(str(city)) for the cities asked about
quote(city) ==
    CASE city = "London" -> "London"
      [] city = "Buenos Aires" -> "Buenos%20Aires"

\* OpenWeatherBook.current_temperature; unit is None for a unit that is
\* empty
current_temperature(book, p, city, unit, response) ==
    LET units == IF unit # None THEN unit[2] ELSE "standard"
        p2 == received(p, requests_get(py_str(book._api_key)[2], quote(city), units, book._timeout))
    IN  IF response[1] = "raise"
        THEN [provider |-> p2, outcome |-> response[2], result |-> None]
        ELSE IF response[2] >= 400
        THEN [provider |-> p2, outcome |-> "HTTPError", result |-> None]
        ELSE IF response[3][1] # "json"
        THEN [provider |-> p2, outcome |-> "JSONDecodeError", result |-> None]
        ELSE IF response[3][3] = None
        THEN [provider |-> p2, outcome |-> "KeyError", result |-> None]
        ELSE [provider |-> p2, outcome |-> "ok", result |-> response[3][3]]

\* The books as constructed, and a provider that has not been called.
InitBooks ==
    /\ twilio = TwilioBook
    /\ weather = OpenWeatherBook
    /\ environ = NoEnviron
    /\ provider = NoProvider

\* ------------------------------------------------------ the document machine
\* The keys the calls are made with, and the values set is called with.
QueryKeys == {"Movies", "MOVIES", "year"}

SetValues(ns) ==
    {<<"int", 7>>, <<"list", <<<<"list", <<<<"node", 1>>>>>>, <<"int", 7>>>>>>}
        \cup {<<"node", n>> : n \in DOMAIN ns}

\* YAMLConcept(value) for a few documents: no mapping, {}, two mappings whose
\* keys differ only by case, and one with a mapping inside nested lists.
InitDocs ==
    { [heap |-> <<>>, nodes |-> <<0>>],
      [heap |-> << <<>> >>, nodes |-> <<1>>],
      [heap |-> << << <<"Movies", <<"dict", 2>>>>, <<"movies", <<"int", 2>>>> >>,
                   << <<"year", <<"int", 1>>>> >> >>,
       nodes |-> <<1>>],
      [heap |-> << << <<"movies", <<"int", 2>>>>, <<"Movies", <<"dict", 2>>>> >>,
                   << <<"year", <<"int", 1>>>> >> >>,
       nodes |-> <<1>>],
      [heap |-> << << <<"Movies", <<"list", << <<"list", << <<"dict", 2>> >> >>,
                                              <<"int", 2>> >> >> >>,
                      <<"year", <<"int", 3>>>> >>,
                   << <<"year", <<"int", 1>>>> >> >>,
       nodes |-> <<1>>] }

\* The last call: the method, its receiver and arguments, and how it ended.
Call(op, n, key, cs, arg, outcome, result) ==
    [op |-> op, node |-> n, key |-> key, cs |-> cs, arg |-> arg,
     outcome |-> outcome, result |-> result]

NoCall == Call("none", 0, "", TRUE, None, "ok", None)

Init ==
    /\ \E d \in InitDocs : heap = d.heap /\ nodes = d.nodes
    /\ visitor = SMSMessageFilter
    /\ InitBooks
    /\ ret = NoCall
    /\ steps = 0

Has(n, key, cs) ==
    /\ steps < MaxSteps
    /\ ret' = Call("has", n, key, cs, None, "ok",
                   <<"bool", has(heap, nodes, n, key, cs)>>)
    /\ steps' = steps + 1
    /\ UNCHANGED <<sms_vars, book_vars>>
    /\ UNCHANGED <<heap, nodes>>

Get(n, key, cs) ==
    LET r == get(heap, nodes, n, key, cs) IN
    /\ steps < MaxSteps
    /\ Len(r.nodes) <= MaxNodes
    /\ heap' = r.heap
    /\ nodes' = r.nodes
    /\ ret' = Call("get", n, key, cs, None, r.outcome, r.result)
    /\ steps' = steps + 1
    /\ UNCHANGED <<sms_vars, book_vars>>

Set(n, key, value, cs) ==
    LET r == set(heap, nodes, n, key, value, cs) IN
    /\ steps < MaxSteps
    /\ heap' = r.heap
    /\ nodes' = r.nodes
    /\ ret' = Call("set", n, key, cs, value, r.outcome, r.result)
    /\ steps' = steps + 1
    /\ UNCHANGED <<sms_vars, book_vars>>

Delete(n, key, cs) ==
    LET r == delete(heap, nodes, n, key, cs) IN
    /\ steps < MaxSteps
    /\ heap' = r.heap
    /\ nodes' = r.nodes
    /\ ret' = Call("delete", n, key, cs, None, r.outcome, r.result)
    /\ steps' = steps + 1
    /\ UNCHANGED <<sms_vars, book_vars>>

Next ==
    \/ \E n \in DOMAIN nodes, key \in QueryKeys, cs \in BOOLEAN : Has(n, key, cs)
    \/ \E n \in DOMAIN nodes, key \in QueryKeys, cs \in BOOLEAN : Get(n, key, cs)
    \/ \E n \in DOMAIN nodes, key \in QueryKeys, cs \in BOOLEAN :
           \E value \in SetValues(nodes) : Set(n, key, value, cs)
    \/ \E n \in DOMAIN nodes, key \in QueryKeys, cs \in BOOLEAN : Delete(n, key, cs)

Spec == Init /\ [][Next]_vars


\* ------------------------------------------------------ claims on the document machine
\* The mapping a node wraps: None when it wraps no mapping.
mapping_of(h, ns, n) == IF ns[n] = 0 THEN None ELSE <<"mapping", h[ns[n]]>>

key_set(m) == {m[i][1] : i \in 1..Len(m)}

\* The first key, in the mapping's order, whose lower-cased name is that of q.
first_match(m, q) ==
    m[CHOOSE i \in 1..Len(m) :
          /\ lower(m[i][1]) = lower(q)
          /\ \A j \in 1..(i - 1) : lower(m[j][1]) # lower(q)][1]

RECURSIVE no_raw_mapping(_)
\* v holds no raw dict, at any depth of nested lists
no_raw_mapping(v) ==
    /\ v[1] # "dict"
    /\ v[1] = "list" => \A i \in 1..Len(v[2]) : no_raw_mapping(v[2][i])

RECURSIVE no_node(_)
\* v holds no YAMLConcept, at any depth of nested lists
no_node(v) ==
    /\ v[1] # "node"
    /\ v[1] = "list" => \A i \in 1..Len(v[2]) : no_node(v[2][i])

\* C1: when get, set with case_sensitive=False, or delete ends with KeyError,
\* the node's mapping (keys, values, order; also "no mapping") and every other
\* mapping of the document are what they were before the call.
C1_FailedCallLeavesNodeUnmodified ==
    [][ ( /\ ret'.outcome = "KeyError"
          /\ \/ ret'.op \in {"get", "delete"}
             \/ ret'.op = "set" /\ ~ret'.cs )
        => /\ mapping_of(heap', nodes', ret'.node) = mapping_of(heap, nodes, ret'.node)
           /\ heap' = heap
           /\ nodes' = nodes ]_vars

\* A case-insensitive delete of a key that matches nothing in a non-empty mapping.
C1_Witness ==
    /\ ret.op = "delete"
    /\ ~ret.cs
    /\ ret.outcome = "KeyError"
    /\ nodes[ret.node] # 0
    /\ heap[nodes[ret.node]] # <<>>

\* C2: set on a node with a mapping: case-sensitive set succeeds, the exact key
\* then holds the unwrapped value and is the only key that may be new;
\* case-insensitive set adds no key, overwrites an existing key whose
\* lower-cased name is that of the query, and ends with KeyError when there is
\* none.  On a node with no mapping set ends with KeyError in both modes.
C2_SetSemantics ==
    [][ ret'.op = "set" =>
        LET n == ret'.node
            key == ret'.key
            stored == unwrap(ret'.arg, nodes)
        IN  IF nodes[n] = 0
            THEN ret'.outcome = "KeyError" /\ nodes'[n] = 0
            ELSE LET m == heap[nodes[n]]
                     m2 == heap'[nodes'[n]]
                 IN  /\ nodes'[n] = nodes[n]
                     /\ no_node(stored)
                     /\ IF ret'.cs
                        THEN /\ ret'.outcome = "ok"
                             /\ key_set(m2) = key_set(m) \cup {key}
                             /\ \E i \in 1..Len(m2) : m2[i] = <<key, stored>>
                             /\ \A i \in 1..Len(m) : m[i][1] # key => m2[i] = m[i]
                        ELSE /\ key_set(m2) \subseteq key_set(m)
                             /\ IF \E k \in key_set(m) : lower(k) = lower(key)
                                THEN /\ ret'.outcome = "ok"
                                     /\ keys(m2) = keys(m)
                                     /\ \E i \in 1..Len(m) :
                                           /\ lower(m[i][1]) = lower(key)
                                           /\ m2[i][2] = stored
                                           /\ \A j \in 1..Len(m) : j # i => m2[j] = m[j]
                                ELSE /\ ret'.outcome = "KeyError"
                                     /\ m2 = m ]_vars

\* A case-insensitive set of a document node that overwrote an existing key
\* spelled differently from the query.
C2_Witness ==
    /\ ret.op = "set"
    /\ ~ret.cs
    /\ ret.outcome = "ok"
    /\ ret.arg[1] = "node"
    /\ ~contains(heap[nodes[ret.node]], ret.key)


\* What C3 says of one call made with query q, for a key K of the mapping
\* whose lower-cased name is that of q: has is true, get returns what the
\* case-sensitive get of K returns, delete removes exactly K.
resolves_to(h, ns, call, h2, K) ==
    LET n == call.node
        m == h[ns[n]]
    IN  /\ call.op = "has" => call.result = <<"bool", TRUE>>
        /\ call.op = "get" =>
              LET exact == get(h, ns, n, K, TRUE)
              IN  /\ call.outcome = "ok"
                  /\ call.result = exact.result
                  /\ unwrap(call.result, exact.nodes) = item(m, K)
        /\ call.op = "delete" =>
              /\ call.outcome = "ok"
              /\ key_set(h2[ns[n]]) = key_set(m) \ {K}
              /\ \A i \in 1..Len(h2[ns[n]]) :
                     \E j \in 1..Len(m) : h2[ns[n]][i] = m[j]

\* C3 as stated: for ANY key K of the mapping whose lower-cased name is that
\* of the query q, the case-insensitive has, get and delete resolve q to K.
C3_AnyMatchingKey ==
    [][ ( /\ ret'.op \in {"has", "get", "delete"}
          /\ ~ret'.cs
          /\ nodes[ret'.node] # 0 )
        => \A K \in key_set(heap[nodes[ret'.node]]) :
               lower(K) = lower(ret'.key)
                   => resolves_to(heap, nodes, ret', heap', K) ]_vars

\* C3, amended: the case-insensitive has, get and delete resolve q to the
\* FIRST key, in the mapping's order, whose lower-cased name is that of q
\* (so to K itself whenever no other key differs from K only by case).
C3_FirstMatchingKey ==
    [][ ( /\ ret'.op \in {"has", "get", "delete"}
          /\ ~ret'.cs
          /\ nodes[ret'.node] # 0
          /\ \E K \in key_set(heap[nodes[ret'.node]]) : lower(K) = lower(ret'.key) )
        => resolves_to(heap, nodes, ret', heap',
                       first_match(heap[nodes[ret'.node]], ret'.key)) ]_vars

\* A case-insensitive delete by "MOVIES" on a mapping that held both "Movies"
\* and "movies": the one that came first is gone, the other is still there.
C3_Witness ==
    /\ ret.op = "delete"
    /\ ~ret.cs
    /\ ret.outcome = "ok"
    /\ ret.key = "MOVIES"
    /\ Cardinality({k \in key_set(heap[nodes[ret.node]]) : lower(k) = "movies"}) = 1

\* What a later get on the parent shows of a set or delete made through node
\* c, which get(p, k, cs0) had returned: the parent's key still leads to the
\* mapping c wraps, and that mapping took the change.
observed_by_parent(h, ns, h2, ns2, got, call) ==
    LET p == got.node
        c == call.node
        again == get(h2, ns2, p, got.key, got.cs)
        through == IF ns[p] = ns[c]
                   THEN [nodes |-> ns2, node |-> p]
                   ELSE [nodes |-> again.nodes, node |-> again.result[2]]
        seen == get(h2, through.nodes, through.node, call.key, call.cs)
    IN  /\ ns[p] # ns[c] =>
              /\ again.outcome = "ok"
              /\ again.result[1] = "node"
              /\ again.nodes[again.result[2]] = ns[c]
        /\ call.op = "set" =>
              /\ seen.outcome = "ok"
              /\ unwrap(seen.result, seen.nodes) = unwrap(call.arg, ns)
        /\ call.op = "delete" =>
              LET gone == IF call.cs THEN call.key
                          ELSE first_match(h[ns[c]], call.key)
              IN  ~has(h2, through.nodes, through.node, gone, TRUE)

\* C9: get never returns a raw mapping: the value it returns holds document
\* nodes wherever the stored value holds mappings, at any depth of nested
\* lists, each node wrapping the very mapping stored in the parent; and a set
\* or delete made through a node that get has just returned is seen by a
\* later get on the parent.  This holds after any sequence of calls.
C9_GetReturnsViews ==
    [][ /\ ( ret'.op = "get" /\ ret'.outcome = "ok" ) =>
             /\ no_raw_mapping(ret'.result)
             /\ \E i \in 1..Len(heap[nodes[ret'.node]]) :
                    heap[nodes[ret'.node]][i][2] = unwrap(ret'.result, nodes')
        /\ ( /\ ret.op = "get" /\ ret.outcome = "ok" /\ ret.result[1] = "node"
             /\ ret'.op \in {"set", "delete"} /\ ret'.outcome = "ok"
             /\ ret'.node = ret.result[2] ) =>
             observed_by_parent(heap, nodes, heap', nodes', ret, ret') ]_vars

\* get returned a list whose nested list holds a document node.
C9_WitnessNestedList ==
    /\ ret.op = "get"
    /\ ret.outcome = "ok"
    /\ ret.result[1] = "list"
    /\ \E i \in 1..Len(ret.result[2]) :
          /\ ret.result[2][i][1] = "list"
          /\ \E j \in 1..Len(ret.result[2][i][2]) : ret.result[2][i][2][j][1] = "node"

\* A set made through a node that an earlier get on the root returned.
C9_Witness ==
    /\ ret.op = "set"
    /\ ret.outcome = "ok"
    /\ ret.node > 1
    /\ nodes[ret.node] # nodes[1]


\* ------------------------------------------------------ YAMLBook.merge
\* always_merger of deepmerge: two lists are appended, two dicts are merged
\* key by key into the first, and for anything else (other types, or types
\* that differ) the second value overrides the first.
RECURSIVE merge_items(_, _, _, _)

\* value_strategy in which the second list overrides the first
value_strategy_override_lists(h, base, nxt) ==
    IF base[1] = "dict" /\ nxt[1] = "dict"
    THEN [heap |-> merge_items(h, base[2], nxt[2], 1), val |-> base]
    ELSE [heap |-> h, val |-> nxt]

\* value_strategy that merges no nested dicts: the second value overrides
value_strategy_override(h, base, nxt) ==
    IF base[1] = "list" /\ nxt[1] = "list"
    THEN [heap |-> h, val |-> <<"list", base[2] \o nxt[2]>>]
    ELSE [heap |-> h, val |-> nxt]

\* Merger.value_strategy(path, base, nxt) of always_merger
value_strategy(h, base, nxt) ==
    IF base[1] = "list" /\ nxt[1] = "list"
    THEN [heap |-> h, val |-> <<"list", base[2] \o nxt[2]>>]
    ELSE IF base[1] = "dict" /\ nxt[1] = "dict"
    THEN [heap |-> merge_items(h, base[2], nxt[2], 1), val |-> base]
    ELSE [heap |-> h, val |-> nxt]

\* DictStrategies.strategy_merge: for k, v in nxt.items(), from the i-th item
\* on: base[k] = v when k is not in base, else value_strategy(base[k], v).
\* b and n are the dict objects; the items are read as the loop reaches them.
merge_items(h, b, n, i) ==
    IF i > Len(h[n])
    THEN h
    ELSE LET k == h[n][i][1]
             v == h[n][i][2]
         IN  IF ~contains(h[b], k)
             THEN merge_items([h EXCEPT ![b] = setitem(h[b], k, v)], b, n, i + 1)
             ELSE LET r == value_strategy(h, item(h[b], k), v)
                  IN  merge_items([r.heap EXCEPT ![b] = setitem(r.heap[b], k, r.val)],
                                  b, n, i + 1)

\* the value field of a YAMLConcept, as a Python value
value_of(ns, n) == IF ns[n] = 0 THEN None ELSE <<"dict", ns[n]>>

\* YAMLBook.merge: always_merger.merge(yaml.value, another_yaml.value), whose
\* result is dropped, then return yaml
merge(h, ns, yaml, another_yaml) ==
    LET r == value_strategy(h, value_of(ns, yaml), value_of(ns, another_yaml))
    IN  Outcome(r.heap, ns, "ok", <<"node", yaml>>)

\* ------------------------------------------------------ plain documents
\* A document as plain data: <<"map", <<k1, v1>>, ...>> for a mapping, with
\* its values plain in turn.  alloc_ builds the objects of a document on the
\* heap, as parsing or construction does; plain reads them back.
RECURSIVE alloc(_, _)
RECURSIVE alloc_items(_, _, _)
alloc(h, pv) ==
    IF pv[1] = "map"
    THEN LET d == Len(h) + 1
         IN  [heap |-> alloc_items(Append(h, <<>>), d, pv[2]), val |-> <<"dict", d>>]
    ELSE IF pv[1] = "list"
    THEN IF pv[2] = <<>>
         THEN [heap |-> h, val |-> pv]
         ELSE LET hd == alloc(h, Head(pv[2]))
                  tl == alloc(hd.heap, <<"list", Tail(pv[2])>>)
              IN  [heap |-> tl.heap, val |-> <<"list", <<hd.val>> \o tl.val[2]>>]
    ELSE [heap |-> h, val |-> pv]

alloc_items(h, d, items) ==
    IF items = <<>>
    THEN h
    ELSE LET r == alloc(h, Head(items)[2])
         IN  alloc_items([r.heap EXCEPT ![d] = Append(@, <<Head(items)[1], r.val>>)],
                         d, Tail(items))

RECURSIVE plain(_, _)
plain(h, v) ==
    IF v[1] = "dict"
    THEN <<"map", [i \in 1..Len(h[v[2]]) |-> <<h[v[2]][i][1], plain(h, h[v[2]][i][2])>>]>>
    ELSE IF v[1] = "list"
    THEN <<"list", [i \in 1..Len(v[2]) |-> plain(h, v[2][i])]>>
    ELSE v

\* YAMLConcept(value) on a plain document: the heap and the nodes with it
new_concept(h, ns, pv) ==
    LET r == alloc(h, pv)
    IN  [heap |-> r.heap, nodes |-> Append(ns, IF r.val = None THEN 0 ELSE r.val[2])]


\* ------------------------------------------------------ the merge machine

\* The documents merge is tried on: no mapping, {}, {a: {x: 1}}, {a: {y: 2}},
\* {a: 1}, {a: 2}, {d: {l: [1]}}, {a: [1], b: {x: {x: 1}}} and
\* {a: [2], b: {x: {y: 2}, y: 5}, c: 1}.
MergeDocs ==
    { None,
      Map(<<>>),
      Map(<< <<"d", Map(<< <<"l", List(<<Num(1)>>)>> >>)>> >>),
      Map(<< <<"a", Map(<< <<"x", Num(1)>> >>)>> >>),
      Map(<< <<"a", Map(<< <<"y", Num(2)>> >>)>> >>),
      Map(<< <<"a", Num(1)>> >>),
      Map(<< <<"a", Num(2)>> >>),
      Map(<< <<"a", List(<<Num(1)>>)>>,
             <<"b", Map(<< <<"x", Map(<< <<"x", Num(1)>> >>)>> >>)>> >>),
      Map(<< <<"a", List(<<Num(2)>>)>>,
             <<"b", Map(<< <<"x", Map(<< <<"y", Num(2)>> >>)>>, <<"y", Num(5)>> >>)>>,
             <<"c", Num(1)>> >>) }

\* Two document nodes, each constructed on its own document.
InitMerge ==
    /\ \E d1 \in MergeDocs, d2 \in MergeDocs :
          LET c1 == new_concept(<<>>, <<>>, d1)
              c2 == new_concept(c1.heap, c1.nodes, d2)
          IN  heap = c2.heap /\ nodes = c2.nodes
    /\ visitor = SMSMessageFilter
    /\ InitBooks
    /\ ret = NoCall
    /\ steps = 0

Merge(yaml, another_yaml) ==
    LET r == merge(heap, nodes, yaml, another_yaml) IN
    /\ steps < MaxSteps
    /\ heap' = r.heap
    /\ nodes' = r.nodes
    /\ ret' = Call("merge", yaml, "", TRUE, <<"node", another_yaml>>,
                   r.outcome, r.result)
    /\ steps' = steps + 1
    /\ UNCHANGED <<sms_vars, book_vars>>

NextMerge ==
    \E yaml \in DOMAIN nodes, another_yaml \in DOMAIN nodes :
        Merge(yaml, another_yaml)

SpecMerge == InitMerge /\ [][NextMerge]_vars

\* ------------------------------------------------------ claims on merge
\* The mapping of node n as plain data (None when it wraps no mapping).
document(h, ns, n) == plain(h, value_of(ns, n))

pkeys(pm) == {pm[2][i][1] : i \in 1..Len(pm[2])}
pitem(pm, k) == pm[2][CHOOSE i \in 1..Len(pm[2]) : pm[2][i][1] = k][2]
is_scalar(pv) == pv[1] \notin {"map", "list"}

RECURSIVE is_deep_merge(_, _, _)
\* res is a deep merge of the plain mappings b and n, as C4 has it: a key of
\* both whose values are mappings holds their deep merge, a key of both whose
\* values are scalars holds n's value, a key of one side holds its value.
is_deep_merge(res, b, n) ==
    /\ res[1] = "map"
    /\ pkeys(res) = pkeys(b) \cup pkeys(n)
    /\ \A k \in pkeys(res) :
          IF k \in pkeys(b) /\ k \in pkeys(n)
          THEN /\ ( pitem(b, k)[1] = "map" /\ pitem(n, k)[1] = "map" )
                      => is_deep_merge(pitem(res, k), pitem(b, k), pitem(n, k))
               /\ ( is_scalar(pitem(b, k)) /\ is_scalar(pitem(n, k)) )
                      => pitem(res, k) = pitem(n, k)
          ELSE IF k \in pkeys(b)
          THEN pitem(res, k) = pitem(b, k)
          ELSE pitem(res, k) = pitem(n, k)

\* C4: merge(yaml, another_yaml) on two mappings deep-merges: mappings under a
\* key of both are merged recursively (the keys of both sides kept), a scalar
\* under a key of both ends as another_yaml's, and a key of one side keeps its
\* value.
C4_DeepMerge ==
    [][ ( /\ ret'.op = "merge"
          /\ nodes[ret'.node] # 0
          /\ nodes[ret'.arg[2]] # 0 )
        => is_deep_merge(document(heap', nodes', ret'.node),
                         document(heap, nodes, ret'.node),
                         document(heap, nodes, ret'.arg[2])) ]_vars

\* {a: {x: 1}} was merged into {a: {y: 2}}: the receiver is {a: {y: 2, x: 1}}.
C4_Witness ==
    /\ ret.op = "merge"
    /\ document(heap, nodes, ret.arg[2]) = Map(<< <<"a", Map(<< <<"x", Num(1)>> >>)>> >>)
    /\ document(heap, nodes, ret.node) =
           Map(<< <<"a", Map(<< <<"y", Num(2)>>, <<"x", Num(1)>> >>)>> >>)

\* The keys of both mappings whose values are both sequences.
list_keys(b, n) ==
    {k \in pkeys(b) \cap pkeys(n) : pitem(b, k)[1] = "list" /\ pitem(n, k)[1] = "list"}

\* C5 as stated: merging one node into another, under a key of both mappings
\* whose values are both sequences the receiver ends with exactly
\* another_yaml's sequence.
C5_OtherSequenceWins ==
    [][ ( /\ ret'.op = "merge"
          /\ ret'.node # ret'.arg[2]
          /\ nodes[ret'.node] # 0
          /\ nodes[ret'.arg[2]] # 0 )
        => LET b == document(heap, nodes, ret'.node)
               n == document(heap, nodes, ret'.arg[2])
               res == document(heap', nodes', ret'.node)
           IN  \A k \in list_keys(b, n) : pitem(res, k) = pitem(n, k) ]_vars

\* C5, amended: under a key of both mappings whose values are both sequences,
\* the receiver ends with its previous sequence followed by another_yaml's
\* sequence (the receiver's previous elements are kept).
C5_SequencesAppended ==
    [][ ( /\ ret'.op = "merge"
          /\ nodes[ret'.node] # 0
          /\ nodes[ret'.arg[2]] # 0 )
        => LET b == document(heap, nodes, ret'.node)
               n == document(heap, nodes, ret'.arg[2])
               res == document(heap', nodes', ret'.node)
           IN  \A k \in list_keys(b, n) :
                   pitem(res, k) = List(pitem(b, k)[2] \o pitem(n, k)[2]) ]_vars

\* {a: [2], ...} was merged into {a: [1], ...}: the receiver holds a: [1, 2].
C5_Witness ==
    /\ ret.op = "merge"
    /\ nodes[ret.node] # 0
    /\ nodes[ret.arg[2]] # 0
    /\ "a" \in pkeys(document(heap, nodes, ret.node))
    /\ "a" \in pkeys(document(heap, nodes, ret.arg[2]))
    /\ pitem(document(heap, nodes, ret.arg[2]), "a") = List(<<Num(2)>>)
    /\ pitem(document(heap, nodes, ret.node), "a") = List(<<Num(1), Num(2)>>)

\* C6: merge returns the very node passed first, and that node's mapping is
\* then the deep merge of its previous mapping with another_yaml's, also when
\* the first node wraps no mapping and another_yaml a non-empty one.
C6_ReturnsMergedReceiver ==
    [][ ret'.op = "merge" =>
        LET b == document(heap, nodes, ret'.node)
            n == document(heap, nodes, ret'.arg[2])
            res == document(heap', nodes', ret'.node)
        IN  /\ ret'.result = <<"node", ret'.node>>
            /\ nodes' = nodes
            /\ ( n # None /\ n # Map(<<>>) ) =>
                   is_deep_merge(res, IF b = None THEN Map(<<>>) ELSE b, n) ]_vars


\* ------------------------------------------------------ yaml.safe_dump / yaml.safe_load
\* YAML text is the sequence of its tokens: <<"plain", t>> and <<"quoted", t>>
\* for a scalar written bare or in quotes, <<"{">> <<"}">> and <<"[">> <<"]">>
\* around the items of a mapping and of a sequence (indentation and flow
\* brackets alike), and <<"...">> for the document end marker.  Bytes are
\* <<"bytes", tokens>>, a str is <<"text", tokens>>.
EmptyBytes == <<"bytes", <<>>>>

Digits == {"0", "1", "2", "3", "4", "5", "6", "7", "8", "9"}

\* int(text) of a one-digit text, as the constructor reads it
text_int(t) == CHOOSE i \in 0..9 : int_text(i) = t

\* The value the implicit resolver of the safe loader gives a bare scalar.
resolve(t) ==
    IF t \in {"null", "~", ""} THEN None
    ELSE IF t \in {"true", "yes", "on"} THEN Bool(TRUE)
    ELSE IF t \in {"false", "no", "off"} THEN Bool(FALSE)
    ELSE IF t \in Digits THEN Num(text_int(t))
    ELSE Str(t)

\* a representer that writes every scalar bare
represent_scalar_bare(pv) ==
    CASE pv[1] = "int"  -> <<"plain", int_text(pv[2])>>
      [] pv[1] = "bool" -> <<"plain", IF pv[2] THEN "true" ELSE "false">>
      [] pv[1] = "none" -> <<"plain", "null">>
      [] OTHER          -> <<"plain", pv[2]>>

\* The scalar the safe dumper writes: a str goes in quotes when, written
\* bare, it would resolve to something that is not a str.
represent_scalar(pv) ==
    CASE pv[1] = "int"  -> <<"plain", int_text(pv[2])>>
      [] pv[1] = "bool" -> <<"plain", IF pv[2] THEN "true" ELSE "false">>
      [] pv[1] = "none" -> <<"plain", "null">>
      [] OTHER          -> IF resolve(pv[2]) = Str(pv[2])
                           THEN <<"plain", pv[2]>>
                           ELSE <<"quoted", pv[2]>>

\* The order of str keys (sort_keys=True sorts the items of a mapping).
key_rank(k) ==
    CASE k = "1" -> 1 [] k = "a" -> 2 [] k = "b" -> 3 [] k = "c" -> 4
      [] k = "x" -> 5 [] k = "y" -> 6 [] OTHER -> 7

RECURSIVE sorted_items(_)
sorted_items(items) ==
    IF items = <<>>
    THEN <<>>
    ELSE LET least == CHOOSE i \in 1..Len(items) :
                          \A j \in 1..Len(items) :
                              key_rank(items[i][1]) <= key_rank(items[j][1])
         IN  <<items[least]>> \o
             sorted_items([j \in 1..(Len(items) - 1) |->
                              IF j < least THEN items[j] ELSE items[j + 1]])

RECURSIVE dump_node(_)
RECURSIVE dump_items(_)
RECURSIVE dump_elems(_)
\* the tokens of a plain value
dump_node(pv) ==
    IF pv[1] = "map"
    THEN << <<"{">> >> \o dump_items(sorted_items(pv[2])) \o << <<"}">> >>
    ELSE IF pv[1] = "list"
    THEN << <<"[">> >> \o dump_elems(pv[2]) \o << <<"]">> >>
    ELSE <<represent_scalar(pv)>>

dump_items(items) ==
    IF items = <<>>
    THEN <<>>
    ELSE <<represent_scalar(Str(Head(items)[1]))>> \o dump_node(Head(items)[2])
             \o dump_items(Tail(items))

dump_elems(elems) ==
    IF elems = <<>>
    THEN <<>>
    ELSE dump_node(Head(elems)) \o dump_elems(Tail(elems))

\* yaml.safe_dump(data): a bare scalar at the root is followed by the document
\* end marker ("null\n...\n" for None)
safe_dump(pv) ==
    LET toks == dump_node(pv)
    IN  IF Len(toks) = 1 /\ toks[1][1] = "plain"
        THEN toks \o << <<"...">> >>
        ELSE toks

\* the key a parsed scalar is in the loaded dict
key_of(v) == IF v[1] = "str" THEN v[2] ELSE "<not a str>"

RECURSIVE parse_node(_)
RECURSIVE parse_items(_, _)
RECURSIVE parse_elems(_, _)
\* the value at the head of the tokens, and the tokens after it
parse_node(toks) ==
    LET t == Head(toks) IN
    IF t[1] = "{" THEN parse_items(Tail(toks), <<>>)
    ELSE IF t[1] = "[" THEN parse_elems(Tail(toks), <<>>)
    ELSE IF t[1] = "plain" THEN [val |-> resolve(t[2]), rest |-> Tail(toks)]
    ELSE [val |-> Str(t[2]), rest |-> Tail(toks)]

parse_items(toks, acc) ==
    IF Head(toks)[1] = "}"
    THEN [val |-> Map(acc), rest |-> Tail(toks)]
    ELSE LET k == parse_node(toks)
             v == parse_node(k.rest)
         IN  parse_items(v.rest, Append(acc, <<key_of(k.val), v.val>>))

parse_elems(toks, acc) ==
    IF Head(toks)[1] = "]"
    THEN [val |-> List(acc), rest |-> Tail(toks)]
    ELSE LET e == parse_node(toks)
         IN  parse_elems(e.rest, Append(acc, e.val))

\* yaml.safe_load(text): None for a text with no document
safe_load(toks) == IF toks = <<>> THEN None ELSE parse_node(toks).val


\* ------------------------------------------------------ (de)serialization
\* str.encode("utf-8") and bytes.decode("utf-8")
encode(text) == <<"bytes", text[2]>>
decode(data) == <<"text", data[2]>>

\* A StringIO: what was written to it and the position it is read from.
Stream(content, pos) == <<"stream", content, pos>>
EmptyStream == Stream(<<>>, 0)

\* YAMLConcept.to_bytes
to_bytes(h, ns, n) ==
    IF ns[n] = 0
    THEN EmptyBytes
    ELSE encode(<<"text", safe_dump(plain(h, value_of(ns, n)))>>)

\* YAMLConcept.from_bytes
from_bytes(h, ns, data) ==
    IF data[2] = <<>>
    THEN new_concept(h, ns, None)
    ELSE new_concept(h, ns, safe_load(decode(data)[2]))

\* YAMLConcept.to_stream: safe_dump writes self.value, whatever it is, to a
\* new StringIO, which is returned as it stands after the write
to_stream(h, ns, n) ==
    LET content == safe_dump(plain(h, value_of(ns, n)))
    IN  Stream(content, Len(content))

\* YAMLConcept.from_stream: safe_load reads the stream from where it stands
from_stream(h, ns, io) ==
    new_concept(h, ns, safe_load(SubSeq(io[2], io[3] + 1, Len(io[2]))))

\* ------------------------------------------------------ the codec machine
\* The documents serialized: no mapping, {}, {a: 1, "1": "1"},
\* {b: {x: "null", a: true}, a: [1, "true", {y: null}, []]}, {x: "x", c: {}},
\* {b: "", a: [[2], "no"]}, {y: [{a: "7"}, 7]} and {c: "~", a: {b: {"1": false}}}.
CodecDocs ==
    { None,
      Map(<<>>),
      Map(<< <<"a", Num(1)>>, <<"1", Str("1")>> >>),
      Map(<< <<"b", Map(<< <<"x", Str("null")>>, <<"a", Bool(TRUE)>> >>)>>,
             <<"a", List(<< Num(1), Str("true"),
                            Map(<< <<"y", None>> >>), List(<<>>) >>)>> >>),
      Map(<< <<"x", Str("x")>>, <<"c", Map(<<>>)>> >>),
      Map(<< <<"b", Str("")>>, <<"a", List(<< List(<<Num(2)>>), Str("no") >>)>> >>),
      Map(<< <<"y", List(<< Map(<< <<"a", Str("7")>> >>), Num(7) >>)>> >>),
      Map(<< <<"c", Str("~")>>,
             <<"a", Map(<< <<"b", Map(<< <<"1", Bool(FALSE)>> >>)>> >>)>> >>) }

InitCodec ==
    /\ \E d \in CodecDocs :
          LET c == new_concept(<<>>, <<>>, d)
          IN  heap = c.heap /\ nodes = c.nodes
    /\ visitor = SMSMessageFilter
    /\ InitBooks
    /\ ret = NoCall
    /\ steps = 0

\* The bytes a caller has at hand: none, or those the last call returned.
BytesAtHand == {EmptyBytes} \cup (IF ret.result[1] = "bytes" THEN {ret.result} ELSE {})

\* The streams a caller has at hand: an empty one, the one the last call
\* returned, and that one rewound (seek(0)).
StreamsAtHand ==
    {EmptyStream} \cup (IF ret.result[1] = "stream"
                        THEN {ret.result, Stream(ret.result[2], 0)}
                        ELSE {})

ToBytes(n) ==
    /\ steps < MaxSteps
    /\ ret' = Call("to_bytes", n, "", TRUE, None, "ok", to_bytes(heap, nodes, n))
    /\ steps' = steps + 1
    /\ UNCHANGED <<sms_vars, book_vars>>
    /\ UNCHANGED <<heap, nodes>>

FromBytes(data) ==
    LET r == from_bytes(heap, nodes, data) IN
    /\ steps < MaxSteps
    /\ Len(r.nodes) <= MaxNodes
    /\ heap' = r.heap
    /\ nodes' = r.nodes
    /\ ret' = Call("from_bytes", 0, "", TRUE, data, "ok", <<"node", Len(r.nodes)>>)
    /\ steps' = steps + 1
    /\ UNCHANGED <<sms_vars, book_vars>>

ToStream(n) ==
    /\ steps < MaxSteps
    /\ ret' = Call("to_stream", n, "", TRUE, None, "ok", to_stream(heap, nodes, n))
    /\ steps' = steps + 1
    /\ UNCHANGED <<sms_vars, book_vars>>
    /\ UNCHANGED <<heap, nodes>>

FromStream(io) ==
    LET r == from_stream(heap, nodes, io) IN
    /\ steps < MaxSteps
    /\ Len(r.nodes) <= MaxNodes
    /\ heap' = r.heap
    /\ nodes' = r.nodes
    /\ ret' = Call("from_stream", 0, "", TRUE, io, "ok", <<"node", Len(r.nodes)>>)
    /\ steps' = steps + 1
    /\ UNCHANGED <<sms_vars, book_vars>>

NextCodec ==
    \/ \E n \in DOMAIN nodes : ToBytes(n)
    \/ \E data \in BytesAtHand : FromBytes(data)
    \/ \E n \in DOMAIN nodes : ToStream(n)
    \/ \E io \in StreamsAtHand : FromStream(io)

SpecCodec == InitCodec /\ [][NextCodec]_vars

\* ------------------------------------------------------ claims on the codec
RECURSIVE struct_eq(_, _)
\* structural equality of plain values: mappings with the same keys and equal
\* values whatever the order, lists equal item by item, equal scalars
struct_eq(a, b) ==
    IF a[1] = "map" /\ b[1] = "map"
    THEN /\ pkeys(a) = pkeys(b)
         /\ \A k \in pkeys(a) : struct_eq(pitem(a, k), pitem(b, k))
    ELSE IF a[1] = "list" /\ b[1] = "list"
    THEN /\ Len(a[2]) = Len(b[2])
         /\ \A i \in 1..Len(a[2]) : struct_eq(a[2][i], b[2][i])
    ELSE a = b

\* C7: from_bytes of the to_bytes of a node wrapping a mapping M wraps a
\* mapping structurally equal to M, and to_bytes of from_bytes(b"") is b"".
C7_ByteRoundTrip ==
    [][ /\ ( /\ ret.op = "to_bytes"
             /\ nodes[ret.node] # 0
             /\ ret'.op = "from_bytes"
             /\ ret'.arg = ret.result )
           => struct_eq(document(heap', nodes', ret'.result[2]),
                        document(heap, nodes, ret.node))
        /\ ( /\ ret.op = "from_bytes"
             /\ ret.arg = EmptyBytes
             /\ ret'.op = "to_bytes"
             /\ ret'.node = ret.result[2] )
           => ret'.result = EmptyBytes ]_vars

\* from_bytes has read back {a: 1, "1": "1"}: the key "1" and the str "1"
\* are still strs.
C7_Witness ==
    /\ ret.op = "from_bytes"
    /\ ret.arg # EmptyBytes
    /\ document(heap, nodes, ret.result[2]) =
           Map(<< <<"1", Str("1")>>, <<"a", Num(1)>> >>)

\* C8: a node that wraps no mapping serializes to nothing on both paths:
\* to_bytes returns no bytes and to_stream a stream with nothing in it.
C8_NoMappingSerializesEmpty ==
    /\ ( ret.op = "to_bytes" /\ nodes[ret.node] = 0 ) => ret.result = EmptyBytes
    /\ ( ret.op = "to_stream" /\ nodes[ret.node] = 0 ) => ret.result[2] = <<>>


\* ------------------------------------------------------ the filter machine
\* The filter expressions visited: comparisons of one noun phrase with one
\* literal, conjunctions of two of them, and a few other shapes.
FilterOperators == {"EQUALS", "GREATER_THAN", "LESS_THAN", "NOT_EQUALS"}
FilterNounPhrases == {SENDER_NUMBER, RECIPIENT_NUMBER, DATE_SENT, "body"}
FilterValues == {Str("+1800"), Str("+1900"), Num(7), Date(1), Date(2)}

Comparisons ==
    {Binary(op, NounPhrases(<<np>>), Value(v)) :
        op \in FilterOperators, np \in FilterNounPhrases, v \in FilterValues}

FilterExpressions ==
    Comparisons
        \cup {Binary("AND", c1, c2) : c1 \in Comparisons, c2 \in Comparisons}
        \cup { Unary("NOT", Binary("EQUALS", NounPhrases(<<SENDER_NUMBER>>),
                                   Value(Str("+1800")))),
               Binary("EQUALS", Value(Str("+1900")), NounPhrases(<<RECIPIENT_NUMBER>>)),
               Binary("EQUALS", NounPhrases(<<SENDER_NUMBER, RECIPIENT_NUMBER>>),
                      Value(Str("+1800"))),
               Binary("OR",
                      Binary("EQUALS", NounPhrases(<<SENDER_NUMBER>>), Value(Str("+1800"))),
                      Binary("EQUALS", NounPhrases(<<SENDER_NUMBER>>), Value(Str("+1900")))) }

InitFilter ==
    /\ heap = <<>>
    /\ nodes = <<>>
    /\ visitor = SMSMessageFilter
    /\ InitBooks
    /\ ret = NoCall
    /\ steps = 0

\* filter_expression.accept(filter_visitor) on the visitor just constructed
Visit(filter_expression) ==
    LET f == accept(filter_expression, visitor) IN
    /\ ret.op = "none"
    /\ visitor' = f
    /\ ret' = Call("accept", 0, "", TRUE, filter_expression,
                   IF f.error = None THEN "ok" ELSE f.error[1], None)
    /\ steps' = steps + 1
    /\ UNCHANGED <<yaml_vars, book_vars>>

NextFilter == \E filter_expression \in FilterExpressions : Visit(filter_expression)

SpecFilter == InitFilter /\ [][NextFilter]_vars

\* ------------------------------------------------------ claims on the filter
\* e is (np == v) for some literal v
is_equals(e, np) ==
    /\ e[1] = "binary"
    /\ e[2] = "EQUALS"
    /\ e[3] = NounPhrases(<<np>>)
    /\ e[4][1] = "value"

dates_unset(f) ==
    /\ f.date_sent = unset
    /\ f.date_sent_before = unset
    /\ f.date_sent_after = unset

\* What C10 says of the visited expression e, slot_of(v) being what a slot
\* holds for the literal v: after (sender number == s) AND (recipient number
\* == r) the sender slot holds s, the recipient slot r and no date slot is
\* set; after a single equals node on sender or recipient only the slot of
\* that field is set.
equals_sets_slot(e, f, slot_of(_)) ==
    /\ ( /\ e[1] = "binary" /\ e[2] = "AND"
         /\ is_equals(e[3], SENDER_NUMBER)
         /\ is_equals(e[4], RECIPIENT_NUMBER) )
       => /\ f.error = None
          /\ f.sender_number = slot_of(e[3][4][2])
          /\ f.recipient_number = slot_of(e[4][4][2])
          /\ dates_unset(f)
    /\ is_equals(e, SENDER_NUMBER)
       => /\ f.error = None
          /\ f.sender_number = slot_of(e[4][2])
          /\ f.recipient_number = unset
          /\ dates_unset(f)
    /\ is_equals(e, RECIPIENT_NUMBER)
       => /\ f.error = None
          /\ f.recipient_number = slot_of(e[4][2])
          /\ f.sender_number = unset
          /\ dates_unset(f)

the_literal(v) == v

\* C10 as stated: the slots end holding the literals s and r themselves.
C10_EqualsSetsLiteral ==
    ret.op = "accept" => equals_sets_slot(ret.arg, visitor, the_literal)

\* C10, amended: the slots end holding str(s) and str(r), which are s and r
\* when the literals are strings; the date slots stay unset, and an equals
\* node on sender or recipient sets only the slot of its field.
C10_EqualsSetsStrOfLiteral ==
    ret.op = "accept" => equals_sets_slot(ret.arg, visitor, py_str)

\* (sender number == "+1800") AND (recipient number == "+1900") was visited.
C10_Witness ==
    /\ ret.op = "accept"
    /\ ret.arg = Binary("AND",
                        Binary("EQUALS", NounPhrases(<<SENDER_NUMBER>>), Value(Str("+1800"))),
                        Binary("EQUALS", NounPhrases(<<RECIPIENT_NUMBER>>), Value(Str("+1900"))))
    /\ visitor.sender_number = Str("+1800")
    /\ visitor.recipient_number = Str("+1900")
    /\ dates_unset(visitor)

\* e compares the date-sent field with a literal
is_date_comparison(e) ==
    /\ e[1] = "binary"
    /\ e[2] \in {"EQUALS", "GREATER_THAN", "LESS_THAN"}
    /\ e[3] = NounPhrases(<<DATE_SENT>>)
    /\ e[4][1] = "value"

\* ... and the literal is not a date/time
is_untyped_date_comparison(e) ==
    is_date_comparison(e) /\ e[4][2][1] # "date"

\* e is a comparison of a recognised field that the visitor accepts
is_accepted_comparison(e) ==
    /\ e[1] = "binary"
    /\ e[2] \in {"EQUALS", "GREATER_THAN", "LESS_THAN"}
    /\ e[3][1] = "noun_phrases"
    /\ Len(e[3][2]) = 1
    /\ e[3][2][1] \in {SENDER_NUMBER, RECIPIENT_NUMBER, DATE_SENT}
    /\ e[4][1] = "value"
    /\ ~is_untyped_date_comparison(e)

\* the date slot that the accepted comparison e sets, if it sets one
sets_date_slot(e, operator) ==
    is_date_comparison(e) /\ e[2] = operator

date_slots_set_by(e, f) ==
    /\ f.date_sent = IF sets_date_slot(e, "EQUALS") THEN e[4][2] ELSE unset
    /\ f.date_sent_after = IF sets_date_slot(e, "GREATER_THAN") THEN e[4][2] ELSE unset
    /\ f.date_sent_before = IF sets_date_slot(e, "LESS_THAN") THEN e[4][2] ELSE unset

type_mismatch(f) == f.error = <<"TypeMismatchError", "date_sent">>

\* C11: a new SMSMessageFilter that visited (date sent > T1) AND (date sent
\* < T2), T1 and T2 date/times, holds T1 in date_sent_after, T2 in
\* date_sent_before and leaves date_sent unset.  An equals, greater-than or
\* less-than node on date sent whose literal is not a date/time, visited
\* alone, first in a conjunction, or second after a comparison that was
\* accepted, ends the traversal with the type-mismatch error on "date_sent"
\* and sets no date slot: the date slots hold what the nodes before it set.
C11_DateRangeAndTypeMismatch ==
    ret.op = "accept" =>
        LET e == ret.arg
            f == visitor
        IN /\ ( /\ e[1] = "binary" /\ e[2] = "AND"
                /\ is_date_comparison(e[3]) /\ e[3][2] = "GREATER_THAN"
                /\ is_date_comparison(e[4]) /\ e[4][2] = "LESS_THAN"
                /\ e[3][4][2][1] = "date"
                /\ e[4][4][2][1] = "date" )
              => /\ f.error = None
                 /\ f.date_sent_after = e[3][4][2]
                 /\ f.date_sent_before = e[4][4][2]
                 /\ f.date_sent = unset
           /\ is_untyped_date_comparison(e)
              => type_mismatch(f) /\ dates_unset(f)
           /\ ( /\ e[1] = "binary" /\ e[2] = "AND"
                /\ is_untyped_date_comparison(e[3]) )
              => type_mismatch(f) /\ dates_unset(f)
           /\ ( /\ e[1] = "binary" /\ e[2] = "AND"
                /\ is_accepted_comparison(e[3])
                /\ is_untyped_date_comparison(e[4]) )
              => type_mismatch(f) /\ date_slots_set_by(e[3], f)

\* (date sent > T1) AND (date sent < T2) was visited.
C11_Witness ==
    /\ ret.op = "accept"
    /\ ret.arg = Binary("AND",
                        Binary("GREATER_THAN", NounPhrases(<<DATE_SENT>>), Value(Date(1))),
                        Binary("LESS_THAN", NounPhrases(<<DATE_SENT>>), Value(Date(2))))
    /\ visitor.date_sent_after = Date(1)
    /\ visitor.date_sent_before = Date(2)
    /\ visitor.date_sent = unset

\* (date sent > T1) AND (date sent < 7) was visited and failed.
C11_WitnessTypeMismatch ==
    /\ ret.op = "accept"
    /\ ret.arg = Binary("AND",
                        Binary("GREATER_THAN", NounPhrases(<<DATE_SENT>>), Value(Date(1))),
                        Binary("LESS_THAN", NounPhrases(<<DATE_SENT>>), Value(Num(7))))
    /\ type_mismatch(visitor)
    /\ visitor.date_sent_after = Date(1)
    /\ visitor.date_sent_before = unset

\* ------------------------------------------------------ the books machine
\* The Twilio accounts the provider knows, and the credentials tried.
AccountSids == {Str("AC1"), Str("AC2")}
AuthTokens == {Str("t1"), Str("t2"), Str("")}
Accounts == {<<Str("AC1"), Str("t1")>>, <<Str("AC2"), Str("t2")>>}

\* What the fetch of an account can answer: an unknown account or a wrong
\* token is rejected, and any call can fail on the way.
FetchResponses(account_sid, auth_token) ==
    IF <<account_sid, auth_token>> \in Accounts
    THEN {"ok", "TwilioRestException"}
    ELSE {"TwilioRestException"}

\* The filter expressions read with: accepted ones, ones that fail after a
\* slot was set, and ones whose unsupported part is below a unary node.
ReadFilters ==
    { Binary("AND",
             Binary("EQUALS", NounPhrases(<<SENDER_NUMBER>>), Value(Str("+1800"))),
             Binary("EQUALS", NounPhrases(<<RECIPIENT_NUMBER>>), Value(Str("+1900")))),
      Binary("AND",
             Binary("GREATER_THAN", NounPhrases(<<DATE_SENT>>), Value(Date(1))),
             Binary("LESS_THAN", NounPhrases(<<DATE_SENT>>), Value(Date(2)))),
      Binary("EQUALS", NounPhrases(<<DATE_SENT>>), Value(Date(1))),
      Binary("AND",
             Binary("EQUALS", NounPhrases(<<SENDER_NUMBER>>), Value(Str("+1800"))),
             Binary("EQUALS", NounPhrases(<<"body">>), Value(Str("hello")))),
      Binary("AND",
             Binary("EQUALS", NounPhrases(<<SENDER_NUMBER>>), Value(Str("+1800"))),
             Binary("NOT_EQUALS", NounPhrases(<<RECIPIENT_NUMBER>>), Value(Str("+1900")))),
      Binary("AND",
             Binary("EQUALS", NounPhrases(<<RECIPIENT_NUMBER>>), Value(Str("+1900"))),
             Binary("EQUALS", NounPhrases(<<DATE_SENT>>), Value(Num(7)))),
      Binary("EQUALS", NounPhrases(<<SENDER_NUMBER, RECIPIENT_NUMBER>>), Value(Str("+1800"))),
      Unary("NOT", Binary("EQUALS", NounPhrases(<<"body">>), Value(Str("hello")))),
      Binary("AND",
             Binary("EQUALS", NounPhrases(<<SENDER_NUMBER>>), Value(Str("+1800"))),
             Unary("NOT", Binary("OR",
                                 Binary("EQUALS", NounPhrases(<<RECIPIENT_NUMBER>>),
                                        Value(Str("+1900"))),
                                 Binary("EQUALS", NounPhrases(<<RECIPIENT_NUMBER>>),
                                        Value(Str("+1800")))))) }

\* What client.messages.list can answer: k messages, or an exception.
Fetched(k) == List([i \in 1..k |-> MessageInstance(i)])
ListResponses == {Fetched(1), Fetched(MaxMessages)}

Offsets == {None} \cup {Num(i) : i \in (0 - 1)..(MaxMessages + 1)}
Limits == {None} \cup {Num(i) : i \in (0 - 1)..(MaxMessages + 1)}

\* The reads made: every offset and limit on a fetched list without a filter
\* expression, and every filter expression (and none) without offset and
\* limit on a list call that answers or fails.
ReadInputs ==
    {<<offset, limit, None, response>> :
        offset \in Offsets, limit \in Limits, response \in ListResponses}
    \cup {<<None, None, filter_expression, response>> :
            filter_expression \in ReadFilters \cup {None},
            response \in {Fetched(MaxMessages), Raised("TwilioRestException")}}

\* The timeouts assigned, the API keys tried and the answers of OpenWeather.
Timeouts == {Num(0 - 5), Num(0), Num(1), Num(60), NaN}
ApiKeys == {Str("k1"), Str("k2")}
Environs == {NoEnviron, [API_KEY |-> Str("k0")]}
Cities == {"London", "Buenos Aires"}
Units == {None, Str("metric")}
WeatherResponses ==
    { Raised("Timeout"),
      Response(200, Json(None, Num(280))),
      Response(200, Json(None, None)),
      Response(401, Json(Str(INVALID_API_KEY), None)),
      Response(401, Json(Str("Unauthorized"), None)),
      Response(401, <<"text">>),
      Response(500, <<"text">>) }

InitBooksMachine ==
    /\ heap = <<>>
    /\ nodes = <<>>
    /\ visitor = SMSMessageFilter
    /\ twilio = TwilioBook
    /\ weather = OpenWeatherBook
    /\ environ \in Environs
    /\ provider = NoProvider
    /\ ret = NoCall
    /\ steps = 0

\* The Twilio book as constructed; it does not read API_KEY.
InitTwilio ==
    /\ heap = <<>>
    /\ nodes = <<>>
    /\ visitor = SMSMessageFilter
    /\ InitBooks
    /\ ret = NoCall
    /\ steps = 0

TwilioConnect(account_sid, auth_token, response) ==
    LET r == twilio_connect(twilio, provider, account_sid, auth_token, response) IN
    /\ steps < MaxCalls
    /\ twilio' = r.book
    /\ provider' = r.provider
    /\ ret' = Call("twilio.connect", 0, "", TRUE, <<account_sid, auth_token, response>>,
                   r.outcome, None)
    /\ steps' = steps + 1
    /\ UNCHANGED <<yaml_vars, sms_vars, weather, environ>>

ReadSmsMessages(offset, limit, filter_expression, response) ==
    LET r == read_sms_messages(twilio, visitor, provider, offset, limit,
                               filter_expression, response) IN
    /\ steps < MaxCalls
    /\ visitor' = r.visitor
    /\ provider' = r.provider
    /\ ret' = Call("read_sms_messages", 0, "", TRUE,
                   <<offset, limit, filter_expression, response>>, r.outcome, r.result)
    /\ steps' = steps + 1
    /\ UNCHANGED <<yaml_vars, twilio, weather, environ>>

SetTimeout(timeout) ==
    LET r == set_timeout(weather, timeout) IN
    /\ steps < MaxCalls
    /\ weather' = r.book
    /\ ret' = Call("timeout", 0, "", TRUE, timeout, r.outcome, None)
    /\ steps' = steps + 1
    /\ UNCHANGED <<yaml_vars, sms_vars, twilio, environ, provider>>

WeatherConnect(api_key, response) ==
    LET r == weather_connect(weather, environ, provider, api_key, response) IN
    /\ steps < MaxCalls
    /\ weather' = r.book
    /\ provider' = r.provider
    /\ ret' = Call("weather.connect", 0, "", TRUE, <<api_key, response>>, r.outcome, None)
    /\ steps' = steps + 1
    /\ UNCHANGED <<yaml_vars, sms_vars, twilio, environ>>

CurrentTemperature(city, unit, response) ==
    LET r == current_temperature(weather, provider, city, unit, response) IN
    /\ steps < MaxCalls
    /\ provider' = r.provider
    /\ ret' = Call("current_temperature", 0, "", TRUE, <<city, unit, response>>,
                   r.outcome, r.result)
    /\ steps' = steps + 1
    /\ UNCHANGED <<yaml_vars, sms_vars, twilio, weather, environ>>

\* The Twilio book: connect and read.
NextTwilio ==
    \/ \E account_sid \in AccountSids, auth_token \in AuthTokens :
          \E response \in FetchResponses(account_sid, auth_token) :
             TwilioConnect(account_sid, auth_token, response)
    \/ \E input \in ReadInputs : ReadSmsMessages(input[1], input[2], input[3], input[4])

SpecTwilio == InitTwilio /\ [][NextTwilio]_vars

\* The OpenWeather book: the timeout, connect and current_temperature.
NextWeather ==
    \/ \E timeout \in Timeouts : SetTimeout(timeout)
    \/ \E api_key \in ApiKeys, response \in WeatherResponses :
          WeatherConnect(api_key, response)
    \/ \E city \in Cities, unit \in Units, response \in WeatherResponses :
          CurrentTemperature(city, unit, response)

SpecWeather == InitBooksMachine /\ [][NextWeather]_vars

\* connect of the two books.
NextConnect ==
    \/ \E account_sid \in AccountSids, auth_token \in AuthTokens :
          \E response \in FetchResponses(account_sid, auth_token) :
             TwilioConnect(account_sid, auth_token, response)
    \/ \E api_key \in ApiKeys, response \in WeatherResponses :
          WeatherConnect(api_key, response)

SpecConnect == InitBooksMachine /\ [][NextConnect]_vars

\* ------------------------------------------------------ claims on the reads
connected(book) == has_credentials(book._account_sid, book._auth_token)

\* a field reference that names anything but exactly one allowed field
is_unsupported_reference(e) ==
    /\ e[1] = "noun_phrases"
    /\ \/ Len(e[2]) # 1
       \/ \E i \in 1..Len(e[2]) : e[2][i] \notin {SENDER_NUMBER, RECIPIENT_NUMBER, DATE_SENT}

\* a binary node whose operator is not equals, greater-than, less-than or and
is_unsupported_operator(e) ==
    /\ e[1] = "binary"
    /\ e[2] \notin {"EQUALS", "GREATER_THAN", "LESS_THAN", "AND"}

\* the tree e contains such a reference or such a node, anywhere
RECURSIVE contains_unsupported(_)
contains_unsupported(e) ==
    \/ is_unsupported_reference(e)
    \/ is_unsupported_operator(e)
    \/ e[1] = "binary" /\ (contains_unsupported(e[3]) \/ contains_unsupported(e[4]))
    \/ e[1] = "unary" /\ contains_unsupported(e[3])

\* ... outside every unary node
RECURSIVE contains_unsupported_outside_unary(_)
contains_unsupported_outside_unary(e) ==
    \/ is_unsupported_reference(e)
    \/ is_unsupported_operator(e)
    \/ /\ e[1] = "binary"
       /\ \/ contains_unsupported_outside_unary(e[3])
          \/ contains_unsupported_outside_unary(e[4])

traversal_failed(call) == call.outcome \in {"ValueError", "TypeMismatchError"}

\* the read was aborted before the list call: the provider received nothing
\* and no list is returned
aborted_before_list(p, p2, call) == p2 = p /\ call.result = None

\* C12 as stated: a read of a connected book whose filter tree contains,
\* anywhere, a field reference naming anything other than exactly one of
\* sender number, recipient number and date sent, or a binary node whose
\* operator is not equals, greater-than, less-than or and, fails in the
\* traversal; and a read whose traversal fails is aborted before the provider
\* list call, returning no list.
C12_UnsupportedAnywhereRejected ==
    [][ ( /\ ret'.op = "read_sms_messages"
          /\ connected(twilio)
          /\ ret'.arg[3] # None ) =>
            /\ contains_unsupported(ret'.arg[3]) => traversal_failed(ret')
            /\ traversal_failed(ret') => aborted_before_list(provider, provider', ret') ]_vars

\* C12, amended: the traversal fails when the unsupported field reference or
\* operator occurs outside every unary node (a unary node is visited without
\* visiting its operand); and a read whose traversal fails is aborted before
\* the provider list call, returning no list.
C12_UnsupportedOutsideUnaryRejected ==
    [][ ( /\ ret'.op = "read_sms_messages"
          /\ connected(twilio)
          /\ ret'.arg[3] # None ) =>
            /\ contains_unsupported_outside_unary(ret'.arg[3]) => traversal_failed(ret')
            /\ traversal_failed(ret') => aborted_before_list(provider, provider', ret') ]_vars

\* (sender number == "+1800") AND (body == "hello") was read with on a
\* connected book: the sender slot was set, the traversal failed, and the
\* last call the provider received is still the fetch of the account.
C12_Witness ==
    /\ ret.op = "read_sms_messages"
    /\ connected(twilio)
    /\ ret.arg[3] = Binary("AND",
                           Binary("EQUALS", NounPhrases(<<SENDER_NUMBER>>), Value(Str("+1800"))),
                           Binary("EQUALS", NounPhrases(<<"body">>), Value(Str("hello"))))
    /\ ret.outcome = "ValueError"
    /\ ret.result = None
    /\ visitor.sender_number = Str("+1800")
    /\ provider.last[1] = "accounts.fetch"

\* the elements of fetched at the 0-indexed positions lo .. hi, in order
elements_at(fetched, lo, hi) ==
    LET first == IF lo < 0 THEN 0 ELSE lo
        last == IF hi > Len(fetched) - 1 THEN Len(fetched) - 1 ELSE hi
    IN  SubSeq(fetched, first + 1, last + 1)

\* What C13 says a read returns for the fetched list, offset o and limit n:
\* the elements at positions o .. o+n-1, from position 0 when the offset is
\* omitted and up to the last when the limit is omitted.
page_of(fetched, offset, limit) ==
    LET o == IF offset = None THEN 0 ELSE offset[2]
        page == IF limit = None
                THEN elements_at(fetched, o, Len(fetched) - 1)
                ELSE elements_at(fetched, o, o + limit[2] - 1)
    IN  List([i \in 1..Len(page) |-> from_message_instance(page[i])])

is_count(v) == v = None \/ v[2] >= 0

\* C13 as stated: a read that fetched the list L returns, for any offset o
\* and limit n, the elements of L at the 0-indexed positions o .. o+n-1 in
\* order (none when o is larger than len(L)); an omitted offset skips nothing
\* and an omitted limit truncates nothing.
C13_PageOfAnyOffsetAndLimit ==
    (ret.op = "read_sms_messages" /\ ret.outcome = "ok") =>
        ret.result = page_of(ret.arg[4][2], ret.arg[1], ret.arg[2])

\* C13, amended: the same for an offset and a limit that are not negative.
C13_PageOfOffsetAndLimit ==
    ( /\ ret.op = "read_sms_messages" /\ ret.outcome = "ok"
      /\ is_count(ret.arg[1]) /\ is_count(ret.arg[2]) ) =>
        ret.result = page_of(ret.arg[4][2], ret.arg[1], ret.arg[2])

\* A read with offset 1 and limit 1 of a list of MaxMessages messages
\* returned the second message only.
C13_Witness ==
    /\ ret.op = "read_sms_messages"
    /\ ret.outcome = "ok"
    /\ ret.arg = <<Num(1), Num(1), None, Fetched(MaxMessages)>>
    /\ ret.result = List(<<from_message_instance(MessageInstance(2))>>)

\* A read with an offset larger than the list returned no message.
C13_WitnessOffsetBeyond ==
    /\ ret.op = "read_sms_messages"
    /\ ret.outcome = "ok"
    /\ ret.arg[1] = Num(MaxMessages + 1)
    /\ ret.arg[4] = Fetched(MaxMessages)
    /\ ret.result = List(<<>>)

\* ------------------------------------------------------ claims on the books
\* timeout > 0 of Python
is_positive(timeout) == timeout # NaN /\ timeout[2] > 0

\* What C14 says of one step: an assignment of a value <= 0 fails and leaves
\* the stored timeout as it was, an assignment of a value > 0 succeeds and
\* stores it, and a request made by connect or current_temperature carries
\* the stored timeout.
timeout_as_assigned(book, book2, p2, call) ==
    /\ (call.op = "timeout" /\ le_zero(call.arg)) =>
          call.outcome = "ValueError" /\ book2._timeout = book._timeout
    /\ (call.op = "timeout" /\ is_positive(call.arg)) =>
          call.outcome = "ok" /\ book2._timeout = call.arg
    /\ call.op \in {"weather.connect", "current_temperature"} =>
          p2.last[3] = book._timeout /\ book2._timeout = book._timeout

\* C14: every step is as above, and consequently the stored timeout is
\* strictly positive in every reachable state.
C14_TimeoutStaysPositive ==
    [][ /\ timeout_as_assigned(weather, weather', provider', ret')
        /\ is_positive(weather'._timeout) ]_vars

\* the provider rejected the credential of this connect
is_rejected(call) ==
    \/ call.op = "twilio.connect" /\ call.arg[3] # "ok"
    \/ /\ call.op = "weather.connect"
       /\ call.arg[2] = Response(401, Json(Str(INVALID_API_KEY), None))

\* C15: a connect whose credential the provider rejects (OpenWeather: the
\* canary answers 401 with an "Invalid API key" message; Twilio: the fetch of
\* the account fails) fails, and the stored credential stays what it was
\* before the call; a Twilio connect updates the account SID and the auth
\* token both or leaves both unchanged.
C15_RejectedCredentialNotStored ==
    [][ /\ is_rejected(ret') =>
             /\ ret'.outcome = "ValueError"
             /\ twilio' = twilio
             /\ weather'._api_key = weather._api_key
        /\ ret'.op = "twilio.connect" =>
             \/ twilio' = twilio
             \/ /\ twilio'._account_sid = ret'.arg[1]
                /\ twilio'._auth_token = ret'.arg[2] ]_vars

\* The Twilio book connected as AC1 and then tried an auth token that the
\* provider rejected for AC2: it still holds the credentials of AC1.
C15_Witness ==
    /\ ret.op = "twilio.connect"
    /\ ret.arg = <<Str("AC2"), Str("t1"), "TwilioRestException">>
    /\ ret.outcome = "ValueError"
    /\ twilio = [_account_sid |-> Str("AC1"), _auth_token |-> Str("t1")]

\* The OpenWeather book connected with k1 and then had k2 rejected.
C15_WitnessWeather ==
    /\ ret.op = "weather.connect"
    /\ ret.arg = <<Str("k2"), Response(401, Json(Str(INVALID_API_KEY), None))>>
    /\ ret.outcome = "ValueError"
    /\ weather._api_key = Str("k1")

\* ------------------------------------------------------ claims on merge, continued
\* C16: merge(yaml, another_yaml) of two nodes leaves another_yaml's mapping,
\* its keys, values and nested structure, equal to what it was before the
\* call.
C16_SecondArgumentUnmodified ==
    [][ (ret'.op = "merge" /\ ret'.node # ret'.arg[2]) =>
            document(heap', nodes', ret'.arg[2]) = document(heap, nodes, ret'.arg[2]) ]_vars

\* the assignments <<slot, value>> that the comparison nodes of the tree e
\* make, slot being the keyword of the list call the visitor's slot is passed as
RECURSIVE assigned(_)
assigned(e) ==
    IF e[1] # "binary"
    THEN {}
    ELSE assigned(e[3]) \cup assigned(e[4]) \cup
         ( IF e[3][1] = "noun_phrases" /\ Len(e[3][2]) = 1 /\ e[4][1] = "value"
           THEN LET np == e[3][2][1]
                    v == e[4][2]
                IN  CASE e[2] = "EQUALS" /\ np = SENDER_NUMBER -> {<<"from_", py_str(v)>>}
                      [] e[2] = "EQUALS" /\ np = RECIPIENT_NUMBER -> {<<"to", py_str(v)>>}
                      [] e[2] = "EQUALS" /\ np = DATE_SENT -> {<<"date_sent", v>>}
                      [] e[2] = "GREATER_THAN" /\ np = DATE_SENT -> {<<"date_sent_after", v>>}
                      [] e[2] = "LESS_THAN" /\ np = DATE_SENT -> {<<"date_sent_before", v>>}
                      [] OTHER -> {}
           ELSE {} )

\* C17: whatever reads were made before, a read that gets to the provider
\* queries it with every slot unset when it has no filter expression (its
\* visitor is a new one, all slots unset), and with a filter expression it
\* passes, in each slot, nothing or a value that a comparison of that very
\* expression assigns to the slot.
C17_SlotsDoNotLeak ==
    [][ ( /\ ret'.op = "read_sms_messages"
          /\ provider'.calls = provider.calls + 1 ) =>
            LET filter_expression == ret'.arg[3]
                query == provider'.last[2]
            IN  /\ provider'.last[1] = "messages.list"
                /\ filter_expression = None =>
                      /\ \A slot \in DOMAIN query : query[slot] = unset
                      /\ visitor' = SMSMessageFilter
                /\ filter_expression # None =>
                      \A slot \in DOMAIN query :
                         \/ query[slot] = unset
                         \/ <<slot, query[slot]>> \in assigned(filter_expression) ]_vars

\* After a list call that carried a filter, a read without a filter
\* expression queried the provider with every slot unset.
C17_Witness ==
    /\ ret.op = "read_sms_messages"
    /\ ret.arg[3] = None
    /\ ret.outcome = "ok"
    /\ provider.filtered > 0
    /\ provider.last = <<"messages.list", list_query(SMSMessageFilter)>>

\* After a list call that carried a filter on the numbers, a read with a
\* filter on the date queried the provider with the date alone.
C17_WitnessFilter ==
    /\ ret.op = "read_sms_messages"
    /\ ret.arg[3] = Binary("EQUALS", NounPhrases(<<DATE_SENT>>), Value(Date(1)))
    /\ provider.filtered > 1
    /\ provider.last = <<"messages.list",
                         [list_query(SMSMessageFilter) EXCEPT !.date_sent = Date(1)]>>

=============================================================================
